---- MODULE Spec2Model ----
(***************************************************************************)
(* Control-point manager (geomdl/control_points.py) and the reorder /      *)
(* neighbour utilities (geomdl/utilities.py).                               *)
(*                                                                         *)
(* Python values are modelled as follows.                                  *)
(*   - a Python list or tuple is a TLA+ sequence; Python's 0-based index i *)
(*     into a container of length n is resolved by PyIndex(n, i), which    *)
(*     gives the 1-based position, wraps a negative index the way Python   *)
(*     does, and gives 0 where Python raises IndexError;                    *)
(*   - a number handed in by a caller is a record [t, v]: its Python type  *)
(*     ("int" or "float") and its value; a stored coordinate is always a   *)
(*     float and is kept as its bare value;                                 *)
(*   - a point handed in by a caller is a record [kind, elts]: "list" or   *)
(*     "tuple" with its elements, or kind "float" for a bare number, which *)
(*     is not a sequence.                                                   *)
(***************************************************************************)
EXTENDS Integers, Sequences, FiniteSets, TLC

VARIABLES
    cm,       \* the CPManager instance: its fields size, count, dimension, pts, ptsd,
              \* is_changed, and opt, the option store of its base object
    lastOp,   \* the last call made on the manager and the exception it raised, if any
    snap,     \* points and data as they were at construction / at the last reset_changed
    call      \* the running call of a utility function, with its locals

vars == <<cm, lastOp, snap, call>>

mgrVars == <<cm, lastOp, snap>>

(***************************************************************************)
(* Bounds of the model.                                                    *)
(***************************************************************************)
\* largest number of control points of a manager
MaxCount == 4
\* largest size of a manager along one axis
MaxSide == 2
\* largest number of parametric dimensions of a manager
MaxRank == 2
\* longest point (spatial length) a caller hands in
MaxLen == 2
\* number of distinct coordinate values
NumVals == 2
\* largest size along one axis handed to default_find_index on its own
MaxAxis == 3
\* largest number of axes handed to default_find_index on its own
MaxAxes == 3
\* longest point list handed to make_zigzag
MaxZigzag == 9
\* largest num_cols handed to make_zigzag
MaxCols == 4
\* largest size_u, size_v handed to make_quadtree
MaxGrid == 3
\* most attached-data numbers (count times arity) of a manager built with an attribute
MaxDataSlots == 2
\* most items of the dictionary handed to set_ptdata
MaxAdct == 1
\* largest size handed to the constructor when it is checked on its own
MaxCtorInt == 2
\* most control points of a manager whose changes are compared with a snapshot
MaxSnapCount == 2
\* most control points of a manager whose per-axis lists are extracted between sets
MaxExtractCount == 4

(***************************************************************************)
(* Python helpers.                                                         *)
(***************************************************************************)
\* list.__getitem__ / __setitem__ index resolution; 0 stands for IndexError
PyIndex(n, i) ==
    IF i >= 0 /\ i < n THEN i + 1
    ELSE IF i < 0 /\ i >= -n THEN n + i + 1
    ELSE 0

\* range(n) as the 0-based sequence <<0, ..., n-1>>
PyRange(n) == [k \in 1..n |-> k - 1]

Min(a, b) == IF a < b THEN a ELSE b

RECURSIVE SeqProd(_)
SeqProd(s) == IF Len(s) = 0 THEN 1 ELSE s[1] * SeqProd(Tail(s))

\* all sequences over S of length lo..hi
SeqsOf(S, lo, hi) == UNION {[1..n -> S] : n \in lo..hi}

(***************************************************************************)
(* default_find_index                                                      *)
(***************************************************************************)
\* the inner loop: mul_res after "for j in pts_size[:i]: mul_res *= j"
\* (a slice past the end of pts_size is the whole of pts_size)
RECURSIVE mul_res_loop(_, _, _)
mul_res_loop(pts_size, i, j) ==
    IF j > Min(i, Len(pts_size)) THEN 1
    ELSE pts_size[j] * mul_res_loop(pts_size, i, j + 1)

\* a mutant of find_index_step: the multiplier of every axis is 1
find_index_step_nomul(pts_size, args, i, idx) == idx + args[i + 1]

\* one pass of the outer loop body, i being enumerate's 0-based position
find_index_step(pts_size, args, i, idx) ==
    LET mul_res == IF i > 0 THEN mul_res_loop(pts_size, i, 1) ELSE 1
    IN  idx + args[i + 1] * mul_res

RECURSIVE find_index_loop(_, _, _, _)
find_index_loop(pts_size, args, i, idx) ==
    IF i >= Len(args) THEN idx
    ELSE find_index_loop(pts_size, args, i + 1, find_index_step(pts_size, args, i, idx))

default_find_index(pts_size, args) == find_index_loop(pts_size, args, 0, 0)

(***************************************************************************)
(* Utility calls: the state of one running call.                           *)
(***************************************************************************)
NoCall == [fn |-> "none", pc |-> "idle"]

\* ---- default_find_index, run one loop pass at a time ----
IndexShapes == SeqsOf(1..MaxAxis, 1, MaxAxes)

InRangeCoords(s) == {c \in [1..Len(s) -> 0..(MaxAxis - 1)] : \A k \in 1..Len(s) : c[k] < s[k]}

FindIndexCall(pts_size, args) ==
    [fn |-> "default_find_index", pc |-> "loop", pts_size |-> pts_size, args |-> args,
     i |-> 0, idx |-> 0]

FindIndexStep ==
    /\ call.fn = "default_find_index"
    /\ call.pc = "loop"
    /\ call.i < Len(call.args)
    /\ call' = [call EXCEPT !.idx = find_index_step(call.pts_size, call.args, call.i, call.idx),
                            !.i = call.i + 1]
    /\ UNCHANGED mgrVars

FindIndexReturn ==
    /\ call.fn = "default_find_index"
    /\ call.pc = "loop"
    /\ call.i >= Len(call.args)
    /\ call' = [call EXCEPT !.pc = "done"]
    /\ UNCHANGED mgrVars

\* ---- make_zigzag, run one loop pass at a time ----
ZigzagCall(points, num_cols) ==
    [fn |-> "make_zigzag", pc |-> "loop", points |-> points, num_cols |-> num_cols,
     new_points |-> <<>>, forward |-> TRUE, idx |-> 0, rev_idx |-> -1]

\* a mutant of ZigzagNextRev: the reversed row starts one element early
ZigzagNextRev_short(idx, num_cols) == idx + num_cols - 2

\* rev_idx at a row boundary
ZigzagNextRev(idx, num_cols) == idx + num_cols - 1

ZigzagStep ==
    /\ call.fn = "make_zigzag"
    /\ call.pc = "loop"
    /\ call.idx < Len(call.points)
    /\ LET at  == IF call.forward THEN call.idx ELSE call.rev_idx
           pos == PyIndex(Len(call.points), at)
           idx1 == call.idx + 1
           turn == idx1 % call.num_cols = 0
       IN  IF pos = 0
           THEN call' = [call EXCEPT !.pc = "raised"]
           ELSE call' = [call EXCEPT
                    !.new_points = Append(call.new_points, call.points[pos]),
                    !.idx = idx1,
                    !.forward = IF turn THEN ~call.forward ELSE call.forward,
                    !.rev_idx = IF turn THEN ZigzagNextRev(idx1, call.num_cols)
                                ELSE IF call.forward THEN call.rev_idx
                                ELSE call.rev_idx - 1]
    /\ UNCHANGED mgrVars

ZigzagReturn ==
    /\ call.fn = "make_zigzag"
    /\ call.pc = "loop"
    /\ call.idx >= Len(call.points)
    /\ call' = [call EXCEPT !.pc = "done"]
    /\ UNCHANGED mgrVars

\* ---- make_quadtree, run one grid cell at a time ----
\* linalg.vector_generate(start, end) and linalg.point_translate(point, vector),
\* on points of one coordinate
vector_generate(start_pt, end_pt) == end_pt - start_pt

point_translate(point_in, vector_in) == point_in + vector_in

QuadtreeCall(points, size_u, size_v, extrapolate) ==
    [fn |-> "make_quadtree", pc |-> "build", points |-> points, size_u |-> size_u,
     size_v |-> size_v, extrapolate |-> extrapolate, points2d |-> <<>>, qtree |-> <<>>,
     u |-> 0, v |-> 0]

\* "Convert control points array into 2-dimensional form"
QuadtreePoints2d(points, size_u, size_v) ==
    [j \in 1..size_v |-> [i \in 1..size_u |-> points[(i - 1) + ((j - 1) * size_u) + 1]]]

\* points2d[a][b]: the positions Python resolves, 0 where it raises IndexError
Row2d(points2d, a) == PyIndex(Len(points2d), a)

Col2d(points2d, a, b) ==
    IF Row2d(points2d, a) = 0 THEN 0 ELSE PyIndex(Len(points2d[Row2d(points2d, a)]), b)

Has2d(points2d, a, b) == Col2d(points2d, a, b) # 0

At2d(points2d, a, b) == points2d[Row2d(points2d, a)][Col2d(points2d, a, b)]

\* temp.append(points2d[a][b]) on the list built so far; ok turns FALSE on IndexError
QtAppend(acc, points2d, a, b) ==
    IF ~acc.ok THEN acc
    ELSE IF ~Has2d(points2d, a, b) THEN [acc EXCEPT !.ok = FALSE]
    ELSE [acc EXCEPT !.temp = Append(acc.temp, At2d(points2d, a, b))]

\* the extrapolated point appended in place of a neighbour outside the grid:
\* (oa, ob) is the opposite neighbour, (a, b) the cell itself
QtExtrapolate(acc, points2d, oa, ob, a, b) ==
    IF ~acc.ok THEN acc
    ELSE IF ~Has2d(points2d, oa, ob) \/ ~Has2d(points2d, a, b) THEN [acc EXCEPT !.ok = FALSE]
    ELSE LET extrapolated_edge == vector_generate(At2d(points2d, oa, ob), At2d(points2d, a, b))
             translated_point == point_translate(At2d(points2d, a, b), extrapolated_edge)
         IN  [acc EXCEPT !.temp = Append(acc.temp, translated_point)]

\* one neighbour: inside the grid it is appended, outside it is extrapolated or left out
QtNeighbour(acc, points2d, inside, na, nb, oa, ob, a, b, extrapolate) ==
    IF inside THEN QtAppend(acc, points2d, na, nb)
    ELSE IF extrapolate THEN QtExtrapolate(acc, points2d, oa, ob, a, b)
    ELSE acc

\* the body of the traversal for cell (u, v)
QtCell(points2d, size_u, size_v, u, v, extrapolate) ==
    LET t0 == QtAppend([ok |-> TRUE, temp |-> <<>>], points2d, u, v)
        t1 == QtNeighbour(t0, points2d, u + 1 < size_u, u + 1, v, u - 1, v, u, v, extrapolate)
        t2 == QtNeighbour(t1, points2d, v + 1 < size_v, u, v + 1, u, v - 1, u, v, extrapolate)
        t3 == QtNeighbour(t2, points2d, u - 1 >= 0, u - 1, v, u + 1, v, u, v, extrapolate)
        t4 == QtNeighbour(t3, points2d, v - 1 >= 0, u, v - 1, u, v + 1, u, v, extrapolate)
    IN  t4

QuadtreeBuild ==
    /\ call.fn = "make_quadtree"
    /\ call.pc = "build"
    /\ call' = [call EXCEPT !.pc = "loop",
                            !.points2d = QuadtreePoints2d(call.points, call.size_u, call.size_v)]
    /\ UNCHANGED mgrVars

QuadtreeStep ==
    /\ call.fn = "make_quadtree"
    /\ call.pc = "loop"
    /\ call.v < call.size_v
    /\ LET cell == QtCell(call.points2d, call.size_u, call.size_v, call.u, call.v,
                          call.extrapolate)
           last_u == call.u + 1 >= call.size_u
       IN  IF ~cell.ok
           THEN call' = [call EXCEPT !.pc = "raised"]
           ELSE call' = [call EXCEPT !.qtree = Append(call.qtree, cell.temp),
                                     !.u = IF last_u THEN 0 ELSE call.u + 1,
                                     !.v = IF last_u THEN call.v + 1 ELSE call.v]
    /\ UNCHANGED mgrVars

QuadtreeReturn ==
    /\ call.fn = "make_quadtree"
    /\ call.pc = "loop"
    /\ call.v >= call.size_v
    /\ call' = [call EXCEPT !.pc = "done"]
    /\ UNCHANGED mgrVars

(***************************************************************************)
(* Values callers hand to the manager.                                     *)
(***************************************************************************)
Vals == 0..(NumVals - 1)

\* the coordinates of the point of length n that counts up from x
Ramp(n, x) == [i \in 1..n |-> (x + i - 1) % NumVals]

InPoint(kind, t, n, x) ==
    [kind |-> kind, elts |-> [i \in 1..n |-> [t |-> t, v |-> Ramp(n, x)[i]]]]

\* a bare number where a point is expected
NotSeq == [kind |-> "float", elts |-> <<>>]

\* the points handed in, of length 0..MaxLen: tuples of floats counting up from any
\* value, and lists of ints counting up from 0
InPts ==
    {InPoint("tuple", "float", n, x) : n \in 0..MaxLen, x \in Vals}
        \cup {InPoint("list", "int", n, 0) : n \in 0..MaxLen}

\* isinstance(value, GeomdlTypeSequence)
IsSeq(value) == value.kind \in {"list", "tuple"}

\* GeomdlFloat(c): the float of the same value, whatever the type handed in
GeomdlFloat(c) == c.v

\* Python's ==  between a stored tuple of floats and tuple(p) for a point p handed in
PtEq(stored, p) ==
    /\ Len(stored) = Len(p.elts)
    /\ \A i \in 1..Len(stored) : stored[i] = p.elts[i].v

IntKey(i) == [kind |-> "int", i |-> i, c |-> <<>>]

TupleKey(c) == [kind |-> "tuple", i |-> 0, c |-> c]

StrKey == [kind |-> "str", i |-> 0, c |-> <<>>]

\* what a method hands back: the manager after the call and the exception raised
Return(self) == [cm |-> self, exc |-> "none"]

Raise(self, exc) == [cm |-> self, exc |-> exc]

(***************************************************************************)
(* The default storage backend.                                            *)
(***************************************************************************)
default_ctrlpts_init(num_ctrlpts, kwargs) ==
    [points |-> [i \in 1..num_ctrlpts |-> <<>>],
     points_data |-> [k \in DOMAIN kwargs |->
                        IF kwargs[k] > 1
                        THEN [i \in 1..num_ctrlpts |-> [j \in 1..kwargs[k] |-> 0]]
                        ELSE [i \in 1..num_ctrlpts |-> <<0>>]]]

\* a mutant of default_ctrlpt_set: the point lands in the slot after idx
default_ctrlpt_set_shift(pts_arr, idx, cpt) ==
    LET pos == PyIndex(Len(pts_arr), idx + 1)
    IN  IF pos = 0 THEN [ok |-> FALSE, pts |-> pts_arr]
        ELSE [ok |-> TRUE,
              pts |-> [pts_arr EXCEPT ![pos] = [i \in 1..Len(cpt.elts) |-> GeomdlFloat(cpt.elts[i])]]]

\* pts_arr[idx] = tuple(GeomdlFloat(c) for c in cpt); ok is FALSE on IndexError
default_ctrlpt_set(pts_arr, idx, cpt) ==
    LET pos == PyIndex(Len(pts_arr), idx)
    IN  IF pos = 0 THEN [ok |-> FALSE, pts |-> pts_arr]
        ELSE [ok |-> TRUE,
              pts |-> [pts_arr EXCEPT ![pos] = [i \in 1..Len(cpt.elts) |-> GeomdlFloat(cpt.elts[i])]]]

\* the loop of default_ctrlpts_set from enumerate position idx on
RECURSIVE ctrlpts_set_loop(_, _, _, _)
ctrlpts_set_loop(pts_in, dim, pts_out, idx) ==
    IF idx >= Len(pts_in) THEN [exc |-> "none", pts |-> pts_out]
    ELSE LET cpt == pts_in[idx + 1]
         IN  IF ~IsSeq(cpt) THEN [exc |-> "GeomdlError", pts |-> pts_out]
             ELSE IF Len(cpt.elts) # dim THEN [exc |-> "GeomdlError", pts |-> pts_out]
             ELSE LET w == default_ctrlpt_set(pts_out, idx, cpt)
                  IN  IF ~w.ok THEN [exc |-> "IndexError", pts |-> pts_out]
                      ELSE ctrlpts_set_loop(pts_in, dim, w.pts, idx + 1)

\* a mutant of default_ctrlpts_set: the length of a point is not compared with dim
RECURSIVE ctrlpts_set_loop_nolen(_, _, _, _)
ctrlpts_set_loop_nolen(pts_in, dim, pts_out, idx) ==
    IF idx >= Len(pts_in) THEN [exc |-> "none", pts |-> pts_out]
    ELSE LET cpt == pts_in[idx + 1]
         IN  IF ~IsSeq(cpt) THEN [exc |-> "GeomdlError", pts |-> pts_out]
             ELSE LET w == default_ctrlpt_set(pts_out, idx, cpt)
                  IN  IF ~w.ok THEN [exc |-> "IndexError", pts |-> pts_out]
                      ELSE ctrlpts_set_loop_nolen(pts_in, dim, w.pts, idx + 1)

default_ctrlpts_set_nolen(pts_in, dim, pts_out) == ctrlpts_set_loop_nolen(pts_in, dim, pts_out, 0)

default_ctrlpts_set(pts_in, dim, pts_out) == ctrlpts_set_loop(pts_in, dim, pts_out, 0)

(***************************************************************************)
(* CPManager: each method as the manager it leaves and the exception it    *)
(* raises.                                                                  *)
(***************************************************************************)
\* a mutant of CPManager_setitem: the dimension is taken from every value assigned and
\* never compared with the one already set
CPManager_setitem_nodim(self, key, value) ==
    IF ~IsSeq(value) THEN Raise(self, "TypeError")
    ELSE LET self1 == [self EXCEPT !.dimension = Len(value.elts)]
         IN  IF key.kind = "int"
             THEN LET w == default_ctrlpt_set(self1.pts, key.i, value)
                  IN  IF ~w.ok THEN Raise(self1, "IndexError")
                      ELSE Return([self1 EXCEPT !.pts = w.pts, !.is_changed = TRUE])
             ELSE IF key.kind = "tuple"
             THEN IF Len(key.c) # Len(self1.size) THEN Raise(self1, "ValueError")
                  ELSE LET idx == default_find_index(self1.size, key.c)
                           w == default_ctrlpt_set(self1.pts, idx, value)
                       IN  IF ~w.ok THEN Raise(self1, "IndexError")
                           ELSE Return([self1 EXCEPT !.pts = w.pts, !.is_changed = TRUE])
             ELSE Raise(self1, "TypeError")

CPManager_setitem(self, key, value) ==
    IF ~IsSeq(value) THEN Raise(self, "TypeError")
    ELSE LET self1 == IF self.dimension < 1
                      THEN [self EXCEPT !.dimension = Len(value.elts)]
                      ELSE self
         IN  IF Len(value.elts) # self1.dimension THEN Raise(self1, "ValueError")
             ELSE IF key.kind = "int"
             THEN LET w == default_ctrlpt_set(self1.pts, key.i, value)
                  IN  IF ~w.ok THEN Raise(self1, "IndexError")
                      ELSE Return([self1 EXCEPT !.pts = w.pts, !.is_changed = TRUE])
             ELSE IF key.kind = "tuple"
             THEN IF Len(key.c) # Len(self1.size) THEN Raise(self1, "ValueError")
                  ELSE LET idx == default_find_index(self1.size, key.c)
                           w == default_ctrlpt_set(self1.pts, idx, value)
                       IN  IF ~w.ok THEN Raise(self1, "IndexError")
                           ELSE Return([self1 EXCEPT !.pts = w.pts, !.is_changed = TRUE])
             ELSE Raise(self1, "TypeError")

\* self[args] = pt; self._is_changed = True
CPManager_set_pt(self, point, args) ==
    LET r == CPManager_setitem(self, TupleKey(args), point)
    IN  IF r.exc # "none" THEN r
        ELSE Return([r.cm EXCEPT !.is_changed = TRUE])

\* what a getter hands back: the value and the exception raised
CPManager_getitem(self, item) ==
    IF item.kind = "int"
    THEN LET pos == PyIndex(Len(self.pts), item.i)
         IN  IF pos = 0 THEN [exc |-> "IndexError", ret |-> <<>>]
             ELSE [exc |-> "none", ret |-> self.pts[pos]]
    ELSE IF item.kind = "tuple"
    THEN IF Len(item.c) # Len(self.size) THEN [exc |-> "ValueError", ret |-> <<>>]
         ELSE LET pos == PyIndex(Len(self.pts), default_find_index(self.size, item.c))
              IN  IF pos = 0 THEN [exc |-> "IndexError", ret |-> <<>>]
                  ELSE [exc |-> "none", ret |-> self.pts[pos]]
    ELSE [exc |-> "TypeError", ret |-> <<>>]

CPManager_pt(self, args) == CPManager_getitem(self, TupleKey(args))

\* the points setter
CPManager_points_set(self, value) ==
    IF ~IsSeq(value) THEN Raise(self, "GeomdlError")
    ELSE IF Len(value.elts) # self.count THEN Raise(self, "GeomdlError")
    ELSE IF self.dimension < 1 /\ Len(value.elts) = 0 THEN Raise(self, "IndexError")
    ELSE IF self.dimension < 1 /\ ~IsSeq(value.elts[1]) THEN Raise(self, "TypeError")
    ELSE LET self1 == IF self.dimension < 1
                      THEN [self EXCEPT !.dimension = Len(value.elts[1].elts)]
                      ELSE self
             r == default_ctrlpts_set(value.elts, self1.dimension, self1.pts)
         IN  IF r.exc # "none" THEN Raise([self1 EXCEPT !.pts = r.pts], r.exc)
             ELSE Return([self1 EXCEPT !.pts = r.pts, !.is_changed = TRUE])

CPManager_reset_changed(self) == Return([self EXCEPT !.is_changed = FALSE])

\* ---- attached data ----
\* "for j, v in enumerate(val): self._ptsd[k][idx][j] = v" from position j on, on the
\* array arr = self._ptsd[k]; an IndexError is re-raised as GeomdlError by set_ptdata,
\* item assignment on a scalar entry is a TypeError
RECURSIVE ptdata_write_loop(_, _, _, _)
ptdata_write_loop(arr, idx, val, j) ==
    IF j >= Len(val) THEN [exc |-> "none", arr |-> arr]
    ELSE LET pos == PyIndex(Len(arr), idx)
         IN  IF pos = 0 THEN [exc |-> "GeomdlError", arr |-> arr]
             ELSE IF Len(arr[pos]) = 1 THEN [exc |-> "TypeError", arr |-> arr]
             ELSE LET jpos == PyIndex(Len(arr[pos]), j)
                  IN  IF jpos = 0 THEN [exc |-> "GeomdlError", arr |-> arr]
                      ELSE ptdata_write_loop([arr EXCEPT ![pos][jpos] = val[j + 1]],
                                             idx, val, j + 1)

\* "for k, val in adct.items()" from item n on
RECURSIVE set_ptdata_loop(_, _, _, _)
set_ptdata_loop(self, adct, idx, n) ==
    IF n >= Len(adct) THEN Return(self)
    ELSE LET k == adct[n + 1].k
             val == adct[n + 1].val
         IN  IF k \notin DOMAIN self.ptsd THEN Raise(self, "GeomdlError")
             ELSE IF val.isseq
             THEN LET w == ptdata_write_loop(self.ptsd[k], idx, val.elts, 0)
                  IN  IF w.exc # "none" THEN Raise([self EXCEPT !.ptsd[k] = w.arr], w.exc)
                      ELSE set_ptdata_loop([self EXCEPT !.ptsd[k] = w.arr, !.is_changed = TRUE],
                                           adct, idx, n + 1)
             ELSE LET pos == PyIndex(Len(self.ptsd[k]), idx)
                  IN  IF pos = 0 THEN Raise(self, "GeomdlError")
                      ELSE set_ptdata_loop([self EXCEPT !.ptsd[k][pos] = val.elts,
                                                        !.is_changed = TRUE],
                                           adct, idx, n + 1)

CPManager_set_ptdata(self, adct, args) ==
    set_ptdata_loop(self, adct, default_find_index(self.size, args), 0)

\* ptdata: the entry found, or None (none = TRUE) on IndexError / KeyError
CPManager_ptdata(self, dkey, args) ==
    LET idx == default_find_index(self.size, args)
    IN  IF dkey \notin DOMAIN self.ptsd THEN [none |-> TRUE, ret |-> <<>>]
        ELSE LET pos == PyIndex(Len(self.ptsd[dkey]), idx)
             IN  IF pos = 0 THEN [none |-> TRUE, ret |-> <<>>]
                 ELSE [none |-> FALSE, ret |-> self.ptsd[dkey][pos]]

\* ---- reset ----
\* the option store with nothing in it
NoOpt == [k \in {} |-> <<>>]

\* GeomdlBase.reset leaves size, count, dimension, points and data alone and empties the
\* option store, where the derived sequences are cached
GeomdlBase_reset(self) == [self EXCEPT !.opt = NoOpt]

\* super().reset(**kwargs), then func_pts_init(self.count, **kwargs) whose result is
\* not assigned to anything
CPManager_reset(self, kwargs) ==
    LET self1 == GeomdlBase_reset(self)
        unused == default_ctrlpts_init(self1.count, kwargs)
    IN  Return(self1)

\* ---- construction ----
\* the manager before __init__ has run
NoManager ==
    [size |-> <<>>, count |-> 0, dimension |-> 0, pts |-> <<>>, ptsd |-> <<>>,
     is_changed |-> FALSE, opt |-> NoOpt]

\* GeomdlBase.__init__: the spatial dimension starts unset
GeomdlBase_init_dimension == 0

\* GeomdlBase.__init__: the option store starts empty
GeomdlBase_init_opt == NoOpt

\* int(arg) for a number given in halves (h = 2 * value): truncation towards zero
PyInt(arg) == IF arg.h >= 0 THEN arg.h \div 2 ELSE -((-arg.h) \div 2)

\* reduce(lambda x, y: x * y, size) on a non-empty size
RECURSIVE reduce_mul(_, _, _)
reduce_mul(sz, acc, i) == IF i > Len(sz) THEN acc ELSE reduce_mul(sz, acc * sz[i], i + 1)

CPManager_init(args, kwargs) ==
    IF \E i \in 1..Len(args) : args[i].t = "str" THEN Raise(NoManager, "ValueError")
    ELSE IF Len(args) = 0 THEN Raise(NoManager, "TypeError")
    ELSE LET sz == [i \in 1..Len(args) |-> PyInt(args[i])]
             cnt == reduce_mul(sz, sz[1], 2)
             st == default_ctrlpts_init(cnt, kwargs)
         IN  Return([size |-> sz, count |-> cnt, dimension |-> GeomdlBase_init_dimension,
                     pts |-> st.points, ptsd |-> st.points_data, is_changed |-> FALSE,
                     opt |-> GeomdlBase_init_opt])

(***************************************************************************)
(* extract_ctrlpts2d: the per-axis point lists, kept in the option store.  *)
(***************************************************************************)
\* cm.get_opt(key): the value stored under key, or None (none = TRUE)
GeomdlBase_get_opt(self, key) ==
    IF key \in DOMAIN self.opt THEN [none |-> FALSE, val |-> self.opt[key]]
    ELSE [none |-> TRUE, val |-> <<>>]

\* cm.opt = (key, value), value not None
GeomdlBase_opt_set(self, key, value) ==
    [self EXCEPT !.opt = [k \in (DOMAIN self.opt) \cup {key} |->
                            IF k = key THEN value ELSE self.opt[k]]]

PDIM_ATTRIBS == <<"size_u", "size_v", "size_w">>

\* cm.size_u, cm.size_v, cm.size_w through __getattr__: self._size[idx], an IndexError
\* where the manager has no such axis
CPManager_getattr(self, attr) ==
    IF \A i \in 1..Len(PDIM_ATTRIBS) : PDIM_ATTRIBS[i] # attr
    THEN [exc |-> "AttributeError", ret |-> 0]
    ELSE LET idx == CHOOSE i \in 1..Len(PDIM_ATTRIBS) : PDIM_ATTRIBS[i] = attr
         IN  IF idx > Len(self.size) THEN [exc |-> "IndexError", ret |-> 0]
             ELSE [exc |-> "none", ret |-> self.size[idx]]

\* the inner comprehension from position i on: [cm[u, v] for u in range(n)] with v = fixed
\* (ufast), or [cm[u, v] for v in range(n)] with u = fixed
RECURSIVE extract_inner(_, _, _, _, _, _)
extract_inner(self, fixed, n, ufast, i, acc) ==
    IF i >= n THEN [exc |-> "none", ret |-> acc]
    ELSE LET item == IF ufast THEN <<i, fixed>> ELSE <<fixed, i>>
             r == CPManager_getitem(self, TupleKey(item))
         IN  IF r.exc # "none" THEN [exc |-> r.exc, ret |-> acc]
             ELSE extract_inner(self, fixed, n, ufast, i + 1, Append(acc, r.ret))

\* the outer loop from position j on: "for v in range(m): pt_u += [...]" (ufast), or
\* "for u in range(m): pt_v += [...]"
RECURSIVE extract_outer(_, _, _, _, _)
extract_outer(self, m, ufast, j, acc) ==
    IF j >= m THEN [exc |-> "none", ret |-> acc]
    ELSE LET n == CPManager_getattr(self, IF ufast THEN "size_u" ELSE "size_v")
         IN  IF n.exc # "none" THEN [exc |-> n.exc, ret |-> acc]
             ELSE LET row == extract_inner(self, j, n.ret, ufast, 0, <<>>)
                  IN  IF row.exc # "none" THEN [exc |-> row.exc, ret |-> acc]
                      ELSE extract_outer(self, m, ufast, j + 1, acc \o row.ret)

\* a mutant of extract_block: the list is built and stored whether cached or not
extract_block_always(self, key, ufast) ==
    LET m == CPManager_getattr(self, IF ufast THEN "size_v" ELSE "size_u")
    IN  IF m.exc # "none" THEN Raise(self, m.exc)
        ELSE LET r == extract_outer(self, m.ret, ufast, 0, <<>>)
             IN  IF r.exc # "none" THEN Raise(self, r.exc)
                 ELSE Return(GeomdlBase_opt_set(self, key, r.ret))

\* one of the two "if cm.get_opt(key) is None:" blocks
extract_block(self, key, ufast) ==
    IF ~GeomdlBase_get_opt(self, key).none THEN Return(self)
    ELSE LET m == CPManager_getattr(self, IF ufast THEN "size_v" ELSE "size_u")
         IN  IF m.exc # "none" THEN Raise(self, m.exc)
             ELSE LET r == extract_outer(self, m.ret, ufast, 0, <<>>)
                  IN  IF r.exc # "none" THEN Raise(self, r.exc)
                      ELSE Return(GeomdlBase_opt_set(self, key, r.ret))

extract_ctrlpts2d(self) ==
    LET r == extract_block(self, "points_u", TRUE)
    IN  IF r.exc # "none" THEN r
        ELSE extract_block(r.cm, "points_v", FALSE)

(***************************************************************************)
(* The inputs the calls are made with.                                     *)
(***************************************************************************)
Shapes == {s \in SeqsOf(1..MaxSide, 1, MaxRank) : SeqProd(s) <= MaxCount}

EmptyKw == [k \in {} |-> 0]

\* the attributes declared at construction: none, a scalar "w", or a 2-vector "n"
KwargsSet == {EmptyKw, "w" :> 1, "n" :> 2}

DataSlots(s, kwargs) ==
    IF kwargs = EmptyKw THEN 0
    ELSE SeqProd(s) * (IF "w" \in DOMAIN kwargs THEN kwargs["w"] ELSE kwargs["n"])

IntArg(n) == [t |-> "int", h |-> 2 * n]

IntArgs(s) == [i \in 1..Len(s) |-> IntArg(s[i])]

\* linear keys, one past each end included
IntKeys(self) == {IntKey(i) : i \in (-self.count - 1)..self.count}

\* coordinate tuples: of the manager's arity with every coordinate inside its axis but
\* at most one, which is one below or one past it; and one tuple each of arity one less
\* and one more
Coords(self) ==
    LET rank == Len(self.size)
    IN  {c \in [1..rank -> -1..MaxSide] :
            /\ \A k \in 1..rank : c[k] <= self.size[k]
            /\ Cardinality({k \in 1..rank : c[k] = -1 \/ c[k] = self.size[k]}) <= 1}
            \cup {[k \in 1..(rank - 1) |-> 0], [k \in 1..(rank + 1) |-> 0]}

\* the coordinates inside the grid
InGrid(self) ==
    {c \in Coords(self) : Len(c) = Len(self.size)
                          /\ \A k \in 1..Len(c) : c[k] >= 0 /\ c[k] < self.size[k]}

\* a bulk value: a list of n elements, each a tuple of floats of length len counting up
\* from x, but for element odd (if odd is in 1..n), which has length oddlen or, where
\* oddlen = -1, is a bare number
BulkValue(n, len, x, odd, oddlen) ==
    [kind |-> "list",
     elts |-> [i \in 1..n |->
                 IF i # odd THEN InPoint("tuple", "float", len, x)
                 ELSE IF oddlen = -1 THEN NotSeq
                 ELSE InPoint("tuple", "float", oddlen, x)]]

\* the bulk values handed in: lists of count elements with at most one odd element, a
\* list one short, a list one long, and a bare number
BulkInputs(self) ==
    {BulkValue(self.count, len, x, odd, oddlen) :
        len \in 0..MaxLen, x \in Vals, odd \in 0..self.count, oddlen \in -1..MaxLen}
        \cup {BulkValue(self.count - 1, 0, 0, 0, 0),
              BulkValue(self.count + 1, 0, 0, 0, 0),
              NotSeq}

\* the keys named: whichever of them was not declared at construction is unknown
DataKeys == {"w", "n"}

\* values attached: the scalars 0 and 1, and vectors of ones of length 0, 2 and 3
DataValsIn ==
    {[isseq |-> FALSE, elts |-> <<0>>], [isseq |-> FALSE, elts |-> <<1>>],
     [isseq |-> TRUE, elts |-> <<>>], [isseq |-> TRUE, elts |-> <<1, 1>>],
     [isseq |-> TRUE, elts |-> <<1, 1, 1>>]}

AdctItems == {[k |-> k, val |-> v] : k \in DataKeys, v \in DataValsIn}

\* dictionaries, as the sequence of their items: no key twice
AdctInputs ==
    {a \in SeqsOf(AdctItems, 0, MaxAdct) :
        \A i, j \in 1..Len(a) : i # j => a[i].k # a[j].k}

(***************************************************************************)
(* The calls on a manager.                                                 *)
(***************************************************************************)
Op(name, exc) == [op |-> name, exc |-> exc, args |-> <<>>]

NoOp == Op("none", "none")

NoSnap == [on |-> FALSE, pts |-> <<>>, ptsd |-> <<>>]

SnapOf(self) == [on |-> TRUE, pts |-> self.pts, ptsd |-> self.ptsd]

\* manager[key] = value
SetItem ==
    \E key \in IntKeys(cm) \cup {TupleKey(c) : c \in Coords(cm)} \cup {StrKey},
       value \in InPts \cup {NotSeq} :
        LET r == CPManager_setitem(cm, key, value)
        IN  /\ cm' = r.cm
            /\ lastOp' = Op("setitem", r.exc)
            /\ UNCHANGED <<snap, call>>

\* manager.set_pt(point, *args)
SetPt ==
    \E args \in Coords(cm), point \in InPts \cup {NotSeq} :
        LET r == CPManager_set_pt(cm, point, args)
        IN  /\ cm' = r.cm
            /\ lastOp' = Op("set_pt", r.exc)
            /\ UNCHANGED <<snap, call>>

\* manager.points = value
PointsSet ==
    \E value \in BulkInputs(cm) :
        LET r == CPManager_points_set(cm, value)
        IN  /\ cm' = r.cm
            /\ lastOp' = Op("points", r.exc)
            /\ UNCHANGED <<snap, call>>

\* manager.set_ptdata(adct, *args)
SetPtData ==
    \E adct \in AdctInputs, args \in Coords(cm) :
        LET r == CPManager_set_ptdata(cm, adct, args)
        IN  /\ cm' = r.cm
            /\ lastOp' = Op("set_ptdata", r.exc)
            /\ UNCHANGED <<snap, call>>

\* manager.reset()
Reset ==
    LET r == CPManager_reset(cm, EmptyKw)
    IN  /\ cm' = r.cm
        /\ lastOp' = Op("reset", r.exc)
        /\ UNCHANGED <<snap, call>>

\* manager.reset_changed()
ResetChanged ==
    LET r == CPManager_reset_changed(cm)
    IN  /\ cm' = r.cm
        /\ lastOp' = Op("reset_changed", r.exc)
        /\ snap' = IF snap.on THEN SnapOf(r.cm) ELSE snap
        /\ UNCHANGED call

\* CPManager(*args, **kwargs)
Construct(args, kwargs) ==
    LET r == CPManager_init(args, kwargs)
    IN  /\ lastOp.op = "none"
        /\ cm' = r.cm
        /\ lastOp' = [op |-> "__init__", exc |-> r.exc, args |-> args]
        /\ UNCHANGED <<snap, call>>

(***************************************************************************)
(* Spec: a manager of a valid shape, and every call on it.                 *)
(***************************************************************************)
Constructed(s, kwargs, track) ==
    LET r == CPManager_init(IntArgs(s), kwargs)
    IN  /\ cm = r.cm
        /\ lastOp = [op |-> "__init__", exc |-> r.exc, args |-> IntArgs(s)]
        /\ snap = IF track THEN SnapOf(r.cm) ELSE NoSnap
        /\ call = NoCall

Init ==
    \E s \in Shapes, kwargs \in KwargsSet :
        /\ DataSlots(s, kwargs) <= MaxDataSlots
        /\ Constructed(s, kwargs, FALSE)

Next ==
    \/ SetItem
    \/ SetPt
    \/ PointsSet
    \/ SetPtData
    \/ Reset
    \/ ResetChanged

Spec == Init /\ [][Next]_vars

(***************************************************************************)
(* SpecChanged: the same calls on a small one-axis manager, with the points and *)
(* data of construction / of the last reset_changed kept for comparison.   *)
(***************************************************************************)
InitChanged ==
    \E s \in Shapes, kwargs \in KwargsSet :
        /\ Len(s) = 1
        /\ SeqProd(s) <= MaxSnapCount
        /\ DataSlots(s, kwargs) <= MaxDataSlots
        /\ Constructed(s, kwargs, TRUE)

SpecChanged == InitChanged /\ [][Next]_vars

(***************************************************************************)
(* SpecExtract: extract_ctrlpts2d between the point sets (set_pt and the    *)
(* bulk setter) and resets of a manager without attributes.                *)
(***************************************************************************)
\* extract_ctrlpts2d(manager)
Extract2d ==
    LET r == extract_ctrlpts2d(cm)
    IN  /\ cm' = r.cm
        /\ lastOp' = Op("extract_ctrlpts2d", r.exc)
        /\ UNCHANGED <<snap, call>>

InitExtract ==
    \E s \in Shapes :
        /\ SeqProd(s) <= MaxExtractCount
        /\ Constructed(s, EmptyKw, FALSE)

NextExtract ==
    \/ SetPt
    \/ PointsSet
    \/ Reset
    \/ Extract2d

SpecExtract == InitExtract /\ [][NextExtract]_vars

(***************************************************************************)
(* SpecCtor: the constructor on arguments of every kind.                   *)
(***************************************************************************)
\* sizes handed in: integers from -1 to MaxCtorInt, the floats 0.5, 1.5 and 2.0, a string
CtorArgVals ==
    {IntArg(n) : n \in -1..MaxCtorInt}
        \cup {[t |-> "float", h |-> 1], [t |-> "float", h |-> 3], [t |-> "float", h |-> 4],
              [t |-> "str", h |-> 0]}

InitCtor ==
    /\ cm = NoManager
    /\ lastOp = NoOp
    /\ snap = NoSnap
    /\ call = NoCall

NextCtor == \E args \in SeqsOf(CtorArgVals, 0, MaxRank), kwargs \in KwargsSet : Construct(args, kwargs)

SpecCtor == InitCtor /\ [][NextCtor]_vars

(***************************************************************************)
(* SpecUtil: one call of default_find_index, make_zigzag or make_quadtree. *)
(***************************************************************************)
InitUtil ==
    /\ cm = NoManager
    /\ lastOp = NoOp
    /\ snap = NoSnap
    /\ call \in UNION {{FindIndexCall(s, c) : c \in InRangeCoords(s)} : s \in IndexShapes}
                \cup {ZigzagCall(PyRange(n), w) : n \in 0..MaxZigzag, w \in 1..MaxCols}
                \cup {QuadtreeCall(PyRange(su * sv), su, sv, e) :
                        su \in 1..MaxGrid, sv \in 1..MaxGrid, e \in BOOLEAN}

NextUtil ==
    \/ FindIndexStep
    \/ FindIndexReturn
    \/ ZigzagStep
    \/ ZigzagReturn
    \/ QuadtreeBuild
    \/ QuadtreeStep
    \/ QuadtreeReturn

SpecUtil == InitUtil /\ [][NextUtil]_vars

(***************************************************************************)
(* Properties of default_find_index (SpecUtil).                            *)
(***************************************************************************)
\* sum over i of c_i * (s_0 * ... * s_{i-1}), the axes counted from 0
MixedRadixSum(s, c) ==
    LET term(i) == c[i] * SeqProd(SubSeq(s, 1, i - 1))
        sumTo[i \in 0..Len(c)] == IF i = 0 THEN 0 ELSE sumTo[i - 1] + term(i)
    IN  sumTo[Len(c)]

\* C1: a finished call of default_find_index(size, c0..ck) with as many coordinates as
\* axes returns sum_i c_i * (s_0 * ... * s_{i-1}); and on the coordinates inside the
\* grid of that size the index lies in 0..count-1, every index of 0..count-1 is the
\* index of some coordinate (the indices reached are exactly 0..count-1), and no two
\* coordinates share an index (there are as many indices reached as coordinates).
C1_IndexBijection ==
    (call.fn = "default_find_index" /\ call.pc = "done"
        /\ Len(call.args) = Len(call.pts_size))
    => LET s == call.pts_size
           cnt == SeqProd(s)
           grid == InRangeCoords(s)
           image == {default_find_index(s, c) : c \in grid}
       IN  /\ call.idx = MixedRadixSum(s, call.args)
           /\ call.args \in grid => call.idx \in 0..(cnt - 1)
           /\ image = 0..(cnt - 1)
           /\ Cardinality(image) = Cardinality(grid)

\* a finished call on the shape (2, 3, 2) at the coordinate (1, 2, 1): 1 + 2*2 + 1*6
C1_Witness ==
    /\ call.fn = "default_find_index"
    /\ call.pc = "done"
    /\ call.pts_size = <<2, 3, 2>>
    /\ call.args = <<1, 2, 1>>
    /\ call.idx = 11

(***************************************************************************)
(* Properties of make_quadtree and make_zigzag (SpecUtil).                 *)
(***************************************************************************)
\* the point of cell (u, v) of a size_u-wide grid given as a flat list
CellPoint(points, size_u, u, v) == points[u + v * size_u + 1]

\* self, then east, north, west, south, each only if inside the grid
CellTuple(points, size_u, size_v, u, v) ==
    <<CellPoint(points, size_u, u, v)>>
        \o (IF u + 1 < size_u THEN <<CellPoint(points, size_u, u + 1, v)>> ELSE <<>>)
        \o (IF v + 1 < size_v THEN <<CellPoint(points, size_u, u, v + 1)>> ELSE <<>>)
        \o (IF u - 1 >= 0 THEN <<CellPoint(points, size_u, u - 1, v)>> ELSE <<>>)
        \o (IF v - 1 >= 0 THEN <<CellPoint(points, size_u, u, v - 1)>> ELSE <<>>)

\* C8: make_quadtree with extrapolate=False does not raise, and returns one tuple per
\* grid cell: as many tuples as cells, and for every cell (u, v) the tuple made of its
\* own point followed by those of its east, north, west and south neighbours that lie
\* inside the grid.
C8_QuadtreeNeighbours ==
    (call.fn = "make_quadtree" /\ ~call.extrapolate)
    => /\ call.pc # "raised"
       /\ call.pc = "done"
            => /\ Len(call.qtree) = call.size_u * call.size_v
               /\ \A u \in 0..(call.size_u - 1), v \in 0..(call.size_v - 1) :
                    \E k \in 1..Len(call.qtree) :
                        call.qtree[k] = CellTuple(call.points, call.size_u, call.size_v, u, v)

\* the zig-zag order of a list: position k (from 0) lies in row k \div w; an even row is
\* kept, an odd row is reversed
ZigzagExpected(points, w) ==
    [k1 \in 1..Len(points) |->
        LET k == k1 - 1
            row == k \div w
            col == k % w
        IN  IF row % 2 = 0 THEN points[k + 1] ELSE points[row * w + (w - 1 - col) + 1]]

ZigzagResultOk ==
    /\ Len(call.new_points) = Len(call.points)
    /\ {call.new_points[k] : k \in 1..Len(call.new_points)}
            = {call.points[k] : k \in 1..Len(call.points)}
    /\ call.new_points = ZigzagExpected(call.points, call.num_cols)

\* the rows of n points, num_cols to a row: the last row is full, or is an even row
ZigzagLastRowOk(n, num_cols) == n % num_cols = 0 \/ (n \div num_cols) % 2 = 0

\* C9 as stated: for every point list and every row_width >= 1 make_zigzag returns (it
\* does not raise) a permutation of the input of the same length, even rows in input
\* order and odd rows reversed.
C9_ZigzagAnyLength ==
    call.fn = "make_zigzag"
    => /\ call.pc # "raised"
       /\ call.pc = "done" => ZigzagResultOk

\* C9 amended: when row_width divides the length, or the incomplete last row is an even
\* row, make_zigzag does not raise and returns a permutation of the input of the same
\* length, even rows in input order and odd rows reversed; when the incomplete last row
\* is an odd row the call does not return a result.
C9_ZigzagFullRows ==
    call.fn = "make_zigzag"
    => IF ZigzagLastRowOk(Len(call.points), call.num_cols)
       THEN /\ call.pc # "raised"
            /\ call.pc = "done" => ZigzagResultOk
       ELSE call.pc # "done"

\* [p0..p8] with row_width 3 gives [p0,p1,p2,p5,p4,p3,p6,p7,p8]
C9_Witness ==
    /\ call.fn = "make_zigzag"
    /\ call.pc = "done"
    /\ call.points = <<0, 1, 2, 3, 4, 5, 6, 7, 8>>
    /\ call.num_cols = 3
    /\ call.new_points = <<0, 1, 2, 5, 4, 3, 6, 7, 8>>

(***************************************************************************)
(* Properties of the constructor (SpecCtor).                               *)
(***************************************************************************)
\* a size that is zero, negative, or not a whole number
BadSizeArg(a) == a.t # "str" /\ (a.h <= 0 \/ a.h % 2 = 1)

\* C5: the constructor raises whenever one of the sizes handed in is non-positive or
\* non-integral, and a manager it returns has every size entry >= 1.
C5_CtorRejectsBadSizes ==
    lastOp.op = "__init__"
    => /\ (\E i \in 1..Len(lastOp.args) : BadSizeArg(lastOp.args[i])) => lastOp.exc # "none"
       /\ lastOp.exc = "none" => \A k \in 1..Len(cm.size) : cm.size[k] >= 1

(***************************************************************************)
(* Properties of the manager (Spec, SpecChanged).                          *)
(***************************************************************************)
\* the set calls that take a coordinate tuple: set_pt(p, *c) and manager[c] = p
SetAt(self, p, c) == {CPManager_set_pt(self, p, c), CPManager_setitem(self, TupleKey(c), p)}

\* C2: from every state of the manager, a successful set of p at a coordinate c inside
\* the grid makes pt(c) return p as a tuple of the same coordinates, and a successful
\* set at another coordinate inside the grid leaves what pt(c) returns as it was.
C2_RoundTrip ==
    \A c \in InGrid(cm) :
        /\ \A p \in InPts : \A r \in SetAt(cm, p, c) :
                r.exc = "none"
                => /\ CPManager_pt(r.cm, c).exc = "none"
                   /\ PtEq(CPManager_pt(r.cm, c).ret, p)
        /\ \A c2 \in InGrid(cm) \ {c} : \A p2 \in InPts : \A r2 \in SetAt(cm, p2, c2) :
                r2.exc = "none" => CPManager_pt(r2.cm, c) = CPManager_pt(cm, c)

\* a 2 x 2 manager after a successful set_pt, with (1, 0) at coordinate (1, 1) and
\* (0, 1), set earlier, still at coordinate (1, 0)
C2_Witness ==
    /\ cm.size = <<2, 2>>
    /\ lastOp = Op("set_pt", "none")
    /\ CPManager_pt(cm, <<1, 1>>).ret = <<1, 0>>
    /\ CPManager_pt(cm, <<1, 0>>).ret = <<0, 1>>

\* the attached data as default_ctrlpts_init leaves them
DataIsInitial(self) ==
    \A k \in DOMAIN self.ptsd : \A i \in 1..Len(self.ptsd[k]) :
        \A j \in 1..Len(self.ptsd[k][i]) : self.ptsd[k][i][j] = 0

\* C3: is_changed is false right after construction and right after reset_changed, and
\* whenever a stored point or an attached datum differs from its value at construction
\* or at the last reset_changed, is_changed is true.
C3_ChangedTracksMutation ==
    /\ lastOp.op \in {"__init__", "reset_changed"} => ~cm.is_changed
    /\ (snap.on /\ (cm.pts # snap.pts \/ cm.ptsd # snap.ptsd)) => cm.is_changed

\* C4: after reset() every point slot is an empty placeholder and every attached datum
\* is zero, and size and count are what they were before the call.
C4_ResetClears ==
    [][lastOp'.op = "reset"
        => /\ \A i \in 1..Len(cm'.pts) : cm'.pts[i] = <<>>
           /\ Len(cm'.pts) = cm'.count
           /\ DataIsInitial(cm')
           /\ cm'.size = cm.size
           /\ cm'.count = cm.count]_vars

\* C6 as stated: len(points) = count, and once dimension is set every stored point has
\* length dimension.
C6_AllPointsHaveDimension ==
    /\ Len(cm.pts) = cm.count
    /\ cm.dimension >= 1 => \A i \in 1..Len(cm.pts) : Len(cm.pts[i]) = cm.dimension

\* C6 amended: len(points) = count; every stored point is an empty placeholder or has
\* length dimension; and right after a successful bulk assignment every stored point
\* has length dimension.
C6_PointsEmptyOrDimension ==
    /\ Len(cm.pts) = cm.count
    /\ \A i \in 1..Len(cm.pts) : Len(cm.pts[i]) = 0 \/ Len(cm.pts[i]) = cm.dimension
    /\ lastOp = Op("points", "none")
        => \A i \in 1..Len(cm.pts) : Len(cm.pts[i]) = cm.dimension

\* dimension set by a single set: the slot assigned has that length, another is empty
C6_Witness ==
    /\ lastOp = Op("setitem", "none")
    /\ cm.dimension = 2
    /\ \E i, j \in 1..Len(cm.pts) : Len(cm.pts[i]) = 2 /\ Len(cm.pts[j]) = 0

\* a bulk value holds a point whose length differs from dim
HasOtherLength(value, dim) ==
    IsSeq(value) /\ \E i \in 1..Len(value.elts) :
                        IsSeq(value.elts[i]) /\ Len(value.elts[i].elts) # dim

\* C7: once dimension is set (>= 1), no call changes it, and every single set of a point
\* of another length and every bulk assignment holding a point of another length raises.
C7_DimensionFixed ==
    cm.dimension >= 1
    => /\ \A key \in IntKeys(cm) \cup {TupleKey(c) : c \in Coords(cm)} \cup {StrKey},
             value \in InPts \cup {NotSeq} :
            LET r == CPManager_setitem(cm, key, value)
            IN  /\ r.cm.dimension = cm.dimension
                /\ (IsSeq(value) /\ Len(value.elts) # cm.dimension) => r.exc # "none"
       /\ \A args \in Coords(cm), value \in InPts \cup {NotSeq} :
            LET r == CPManager_set_pt(cm, value, args)
            IN  /\ r.cm.dimension = cm.dimension
                /\ (IsSeq(value) /\ Len(value.elts) # cm.dimension) => r.exc # "none"
       /\ \A value \in BulkInputs(cm) :
            LET r == CPManager_points_set(cm, value)
            IN  /\ r.cm.dimension = cm.dimension
                /\ HasOtherLength(value, cm.dimension) => r.exc # "none"
       /\ \A adct \in AdctInputs, args \in Coords(cm) :
            CPManager_set_ptdata(cm, adct, args).cm.dimension = cm.dimension
       /\ CPManager_reset(cm, EmptyKw).cm.dimension = cm.dimension
       /\ CPManager_reset_changed(cm).cm.dimension = cm.dimension

\* dimension 2 is set and a set of a point of length 1 has just been refused
C7_Witness ==
    /\ cm.dimension = 2
    /\ lastOp = Op("set_pt", "ValueError")
    /\ \E i \in 1..Len(cm.pts) : Len(cm.pts[i]) = 2

\* C10: ptdata returns None whenever the index resolved from the coordinates is outside
\* 0..count-1 or the key was not declared; it returns a stored value only when the key
\* is declared and the index is inside 0..count-1.
C10_PtdataAbsent ==
    \A dkey \in DataKeys, args \in Coords(cm) :
        LET idx == default_find_index(cm.size, args)
            r == CPManager_ptdata(cm, dkey, args)
        IN  /\ (idx \notin 0..(cm.count - 1) \/ dkey \notin DOMAIN cm.ptsd) => r.none
            /\ ~r.none => (dkey \in DOMAIN cm.ptsd /\ idx \in 0..(cm.count - 1))

(***************************************************************************)
(* The cached per-axis lists (SpecExtract).                                *)
(***************************************************************************)
\* [pt(u, v) for v ascending (outer), u ascending (inner)] of a two-axis manager
ExpectedU(self) ==
    [i \in 1..(self.size[1] * self.size[2]) |->
        CPManager_pt(self, <<(i - 1) % self.size[1], (i - 1) \div self.size[1]>>).ret]

\* [pt(u, v) for u ascending (outer), v ascending (inner)] of a two-axis manager
ExpectedV(self) ==
    [i \in 1..(self.size[1] * self.size[2]) |->
        CPManager_pt(self, <<(i - 1) \div self.size[2], (i - 1) % self.size[2]>>).ret]

\* C11: an extract_ctrlpts2d that returns on a manager with nothing cached stores
\* points_u = [pt(u,v) for v ascending (outer), u ascending (inner)] and
\* points_v = [pt(u,v) for u ascending (outer), v ascending (inner)]; and once something
\* is cached, every call but reset (a single set, a bulk set, another
\* extract_ctrlpts2d) leaves the cached lists exactly as they are.
C11_CacheKept ==
    [][/\ (lastOp'.op = "extract_ctrlpts2d" /\ lastOp'.exc = "none" /\ cm.opt = NoOpt)
            => /\ DOMAIN cm'.opt = {"points_u", "points_v"}
               /\ cm'.opt["points_u"] = ExpectedU(cm)
               /\ cm'.opt["points_v"] = ExpectedV(cm)
       /\ (cm.opt # NoOpt /\ lastOp'.op # "reset") => cm'.opt = cm.opt]_vars

\* extract_ctrlpts2d has just returned on a 2 x 2 manager whose points were set after
\* the lists were cached: the cached lists differ from each other and are no longer the
\* lists of the points stored now
C11_Witness ==
    /\ lastOp = Op("extract_ctrlpts2d", "none")
    /\ cm.size = <<2, 2>>
    /\ DOMAIN cm.opt = {"points_u", "points_v"}
    /\ cm.opt["points_u"] # cm.opt["points_v"]
    /\ cm.opt["points_u"] # ExpectedU(cm)
    /\ cm.opt["points_v"] # ExpectedV(cm)

(***************************************************************************)
(* A single set that fails on its key (Spec).                              *)
(***************************************************************************)
\* the keys a single set refuses: a string, and the coordinate tuples of another arity
BadKeys(self) ==
    {StrKey} \cup {TupleKey(c) : c \in {d \in Coords(self) : Len(d) # Len(self.size)}}

\* a value the manager would take at a good key: a sequence of the dimension set, or any
\* sequence while the dimension is unset
TakenValue(self, value) ==
    IsSeq(value) /\ (self.dimension < 1 \/ Len(value.elts) = self.dimension)

\* C12: a single set (manager[key] = value, or set_pt) that raises because the key is not
\* an integer or a tuple, or because the coordinate tuple has another length than the
\* number of axes, leaves points, dimension (a still unset one included) and is_changed
\* as they were before the call.
C12_FailedSetNoEffect ==
    \A value \in {v \in InPts : TakenValue(cm, v)} :
        /\ \A key \in BadKeys(cm) :
              LET r == CPManager_setitem(cm, key, value)
              IN  r.exc # "none"
                  => /\ r.cm.pts = cm.pts
                     /\ r.cm.dimension = cm.dimension
                     /\ r.cm.is_changed = cm.is_changed
        /\ \A args \in {d \in Coords(cm) : Len(d) # Len(cm.size)} :
              LET r == CPManager_set_pt(cm, value, args)
              IN  r.exc # "none"
                  => /\ r.cm.pts = cm.pts
                     /\ r.cm.dimension = cm.dimension
                     /\ r.cm.is_changed = cm.is_changed

====
